---- MODULE Spec2Model ----
(***************************************************************************)
(* Model of otelfiber.Middleware (src/otelfiber/fiber.go): the per-request *)
(* bracket that starts a span, counts the request in                       *)
(* http.server.active_requests, dispatches the rest of the chain with     *)
(* c.Next(), and then closes the span and records the histograms.         *)
(*                                                                         *)
(* Every request r is one invocation of the closure returned by           *)
(* Middleware (fiber.go:83-162).  pc[r] is the position of that           *)
(* invocation; the other per-request variables are the fields of its      *)
(* fiber.Ctx, its closure locals, and what the tracing/metrics SDK has    *)
(* been told about it.  The instruments are shared by all requests.       *)
(***************************************************************************)
EXTENDS Integers, Sequences, FiniteSets, TLC

\* Number of requests that go through the same middleware instance.
NReq == 2

\* Range of response status codes explored by the status-mapping
\* specification (SpecStatus).
MinCode == 100
MaxCode == 599

Requests == 1..NReq

\* Raw request paths (c.Path()) and the route table of the host application:
\* the template of the route that c.Next() ends up matching.
Paths == {"/users/42", "/health"}

Template(p) == IF p = "/users/42" THEN "/users/:id" ELSE p

\* c.Route().Path while the middleware itself is the matched route
\* (registered with app.Use), i.e. before c.Next() has matched a handler.
MiddlewareRoute == "/"

\* Status codes a handler / the error handler leaves on the response in the
\* single-request specifications, and in the concurrent specification.
HandlerCodes == {200, 500}
ErrorCodes   == {404, 500}
SuccessCode  == {200}
NotFoundCode == {404}

AllCodes == MinCode..MaxCode

\* Largest body length explored by the single-request specification
\* (SpecRequest), and the latest reading of its clock, in nanoseconds.
MaxBody == 2
MaxNow == 2000

\* Body lengths of the request and of the response.
BodySizes == 0..MaxBody

\* Body lengths and handler running times in the concurrent specification.
FixedSizes == {MaxBody}
NoTime == {0}

\* Amounts of time, in nanoseconds, by which the clock is seen to advance.
Elapsed == {500, 1000}

\* The four instruments created by Middleware (lines 25-28).
Instruments == {"http.server.duration", "http.server.request.size",
                "http.server.response.size", "http.server.active_requests"}

VARIABLES
  cfg,                       \* config resolved by Middleware(opts...)
  installed,                 \* Middleware(opts...) has returned its handler
  failed,                    \* instruments whose creation returned an error
  handled,                   \* errors passed to otel.Handle
  now,                       \* reading of the monotonic clock, nanoseconds
  start,                     \* closure local start (line 87)
  handlerNanos,              \* time the call of c.Next() took
  requestBody,               \* len(c.Request().Body())
  responseBody,              \* len(c.Response().Body())
  bodyOnEntry,               \* length of the request body as received
  requestMetricsAttrs,       \* closure local requestMetricsAttrs (line 89)
  requestMetric,             \* closure local requestMetric (line 91)
  responseMetricAttrs,       \* closure local responseMetricAttrs (line 94)
  requestSize,               \* closure local requestSize (line 133)
  responseSize,              \* closure local responseSize (line 134)
  pc,                        \* position of each invocation of the closure
  path,                      \* c.Path()
  route,                     \* c.Route().Path
  statusCode,                \* c.Response().StatusCode()
  userContext,               \* c.UserContext()
  locals,                    \* keys stored with c.Locals
  ctxDone,                   \* cancel() of savedCtx has been called
  nextErr,                   \* what c.Next() did: "nil", "err", "panic"
  errorHandlerCalls,         \* calls of c.App().Config().ErrorHandler
  deferred,                  \* the invocation's stack of deferred calls
  responseAttrs,             \* closure local responseAttrs (line 128)
  result,                    \* how the invocation left: "nil" or "panic"
  span,                      \* the span of the request, as the SDK sees it
  httpServerActiveRequests,  \* value of the up/down counter
  activeAdds,                \* Add calls made on the counter, per request
  httpServerDuration,        \* points recorded, per request
  httpServerRequestSize,
  httpServerResponseSize

vars == <<cfg, installed, failed, handled, now, start, handlerNanos,
          requestBody, responseBody, bodyOnEntry, requestMetricsAttrs,
          requestMetric, responseMetricAttrs, requestSize, responseSize,
          pc, path, route, statusCode, userContext, locals, ctxDone,
          nextErr, errorHandlerCalls, deferred, responseAttrs, result, span,
          httpServerActiveRequests, activeAdds, httpServerDuration,
          httpServerRequestSize, httpServerResponseSize>>

setupVars == <<cfg, installed, failed, handled>>
timeVars == <<now, start, handlerNanos>>
bodyVars == <<requestBody, responseBody, bodyOnEntry>>
attrVars == <<requestMetricsAttrs, requestMetric, responseMetricAttrs>>
sizeVars == <<requestSize, responseSize>>
ctxVars == <<userContext, locals, ctxDone>>
reqVars == <<path, route, statusCode>>
metricVars == <<httpServerActiveRequests, activeAdds, httpServerDuration,
                httpServerRequestSize, httpServerResponseSize>>

----------------------------------------------------------------------------
(* Pure helpers                                                            *)

\* go.opentelemetry.io/otel/semconv/internal: the ranges of status codes the
\* package accepts as valid, per category (code / 100).
validRangesPerCategory ==
  [c \in 1..5 |->
     CASE c = 1 -> {<<100, 103>>}
       [] c = 2 -> {<<200, 208>>, <<226, 226>>}
       [] c = 3 -> {<<300, 305>>, <<307, 308>>}
       [] c = 4 -> {<<400, 418>>, <<421, 426>>, <<428, 429>>,
                    <<431, 431>>, <<451, 451>>}
       [] c = 5 -> {<<500, 508>>, <<510, 511>>}]

\* semconv validateHTTPStatusCode: <<span code, valid>>.
validateHTTPStatusCode(code) ==
  LET category == code \div 100 IN
  IF category \notin DOMAIN validRangesPerCategory
    THEN <<"Error", FALSE>>
  ELSE IF ~ \E rg \in validRangesPerCategory[category] :
              rg[1] <= code /\ code <= rg[2]
    THEN <<"Error", FALSE>>
  ELSE IF category > 0 /\ category < 4
    THEN <<"Unset", TRUE>>
  ELSE <<"Error", TRUE>>

\* The mapping without the server-span exclusion of 4xx.
SpanStatusNo4xxRule(code, spanKind) ==
  LET v == validateHTTPStatusCode(code) IN
  IF ~ v[2] THEN [code |-> v[1], message |-> "Invalid HTTP status code"]
  ELSE [code |-> v[1], message |-> ""]

\* semconv.SpanStatusFromHTTPStatusCodeAndSpanKind (called at line 158):
\* the status and message for a span, 4xx excluded for server spans.
SpanStatusFromHTTPStatusCodeAndSpanKind(code, spanKind) ==
  LET v == validateHTTPStatusCode(code) IN
  IF ~ v[2] THEN [code |-> v[1], message |-> "Invalid HTTP status code"]
  ELSE IF spanKind = "server" /\ code \div 100 = 4
    THEN [code |-> "Unset", message |-> ""]
  ELSE [code |-> v[1], message |-> ""]

\* A formatter that keeps the raw request path.
rawPathFormatter(r) == path[r]

\* defaultSpanNameFormatter (lines 167-169).
defaultSpanNameFormatter(r) == route[r]

\* cfg.SpanNameFormatter(c) (line 156): the default, or a formatter
\* supplied with an option.
SpanNameFormatter(r) ==
  IF cfg.SpanNameFormatter = "default"
    THEN defaultSpanNameFormatter(r)
    ELSE "custom " \o route[r]

\* ctx.Err() != nil for a context of request r: savedCtx and everything
\* derived from it is done once cancel() has run.
Done(r, ctx) == ctx \in {"savedCtx", "spanCtx"} /\ ctxDone[r]

NoSpan == [started |-> 0, ended |-> 0, name |-> "", status |-> "Unset",
           message |-> "", errors |-> 0, attrs |-> <<>>, ops |-> <<>>]

\* httpServerMetricAttributesFromRequest (called at line 89): the
\* request-phase attributes of the metrics, read from the request.
httpServerMetricAttributesFromRequest(r) ==
  << <<"http.method", "GET">>, <<"http.target", path[r]>> >>

\* attributesToMetricOptions (lines 172-178): one WithAttributes option per
\* attribute, in the order of attrs.
attributesToMetricOptions(attrs) ==
  [i \in 1..Len(attrs) |-> [WithAttributes |-> <<attrs[i]>>]]

\* attributesToRecordOptions (lines 181-187).
attributesToRecordOptions(attrs) ==
  [i \in 1..Len(attrs) |-> [WithAttributes |-> <<attrs[i]>>]]

\* The attributes a measurement made with these options carries, in the
\* order the options apply them.
Attributes(options) ==
  [i \in 1..Len(options) |-> options[i].WithAttributes[1]]

\* The order in which Middleware creates the instruments (lines 59-74).
CreationOrder ==
  <<"http.server.duration", "http.server.request.size",
    "http.server.response.size", "http.server.active_requests">>

\* time.Duration.Milliseconds: whole milliseconds of d nanoseconds.
Milliseconds(d) == d \div 1000000

\* time.Duration.Microseconds: whole microseconds of d nanoseconds.
Microseconds(d) == d \div 1000

----------------------------------------------------------------------------
(* Initial state: the handler returned by Middleware(opts...), no request  *)
(* received yet.                                                           *)

InitRequests ==
  /\ pc = [r \in Requests |-> "idle"]
  /\ path = [r \in Requests |-> ""]
  /\ route = [r \in Requests |-> MiddlewareRoute]
  /\ statusCode = [r \in Requests |-> 200]
  /\ userContext = [r \in Requests |-> "original"]
  /\ locals = [r \in Requests |-> {}]
  /\ ctxDone = [r \in Requests |-> FALSE]
  /\ nextErr = [r \in Requests |-> "none"]
  /\ errorHandlerCalls = [r \in Requests |-> 0]
  /\ deferred = [r \in Requests |-> <<>>]
  /\ responseAttrs = [r \in Requests |-> <<>>]
  /\ result = [r \in Requests |-> "none"]
  /\ span = [r \in Requests |-> NoSpan]
  /\ httpServerActiveRequests = 0
  /\ activeAdds = [r \in Requests |-> <<>>]
  /\ httpServerDuration = [r \in Requests |-> <<>>]
  /\ httpServerRequestSize = [r \in Requests |-> <<>>]
  /\ httpServerResponseSize = [r \in Requests |-> <<>>]
  /\ now = 0
  /\ start = [r \in Requests |-> 0]
  /\ handlerNanos = [r \in Requests |-> 0]
  /\ requestBody = [r \in Requests |-> 0]
  /\ responseBody = [r \in Requests |-> 0]
  /\ bodyOnEntry = [r \in Requests |-> 0]
  /\ requestMetricsAttrs = [r \in Requests |-> <<>>]
  /\ requestMetric = [r \in Requests |-> <<>>]
  /\ responseMetricAttrs = [r \in Requests |-> <<>>]
  /\ requestSize = [r \in Requests |-> 0]
  /\ responseSize = [r \in Requests |-> 0]

\* The handler of a middleware whose four instruments were all created.
Init ==
  /\ cfg \in [SpanNameFormatter : {"default", "custom"}]
  /\ installed = TRUE
  /\ failed = {}
  /\ handled = <<>>
  /\ InitRequests

\* Before Middleware(opts...) is called.
InitSetup ==
  /\ cfg \in [SpanNameFormatter : {"default", "custom"}]
  /\ installed = FALSE
  /\ failed = {}
  /\ handled = <<>>
  /\ InitRequests

----------------------------------------------------------------------------
(* Middleware(opts...), lines 37-82: create the instruments; fs are those  *)
(* whose creation returns an error.  Each error goes to otel.Handle and    *)
(* the instrument returned with it is kept and used.                       *)

\* A setup that gives up at the first instrument that cannot be created.
MiddlewareAbortsOnError(fs) ==
  /\ ~ installed
  /\ failed' = fs
  /\ handled' = SelectSeq(CreationOrder, LAMBDA i : i \in fs)
  /\ installed' = (fs = {})
  /\ UNCHANGED <<cfg, timeVars, bodyVars, attrVars, sizeVars, pc, reqVars,
                 ctxVars, nextErr, errorHandlerCalls, deferred, responseAttrs,
                 result, span, metricVars>>

Middleware(fs) ==
  /\ ~ installed
  /\ failed' = fs
  /\ handled' = SelectSeq(CreationOrder, LAMBDA i : i \in fs)
  /\ installed' = TRUE
  /\ UNCHANGED <<cfg, timeVars, bodyVars, attrVars, sizeVars, pc, reqVars,
                 ctxVars, nextErr, errorHandlerCalls, deferred, responseAttrs,
                 result, span, metricVars>>

\* The monotonic clock advances by d nanoseconds.
Tick(d) ==
  /\ now + d <= MaxNow
  /\ now' = now + d
  /\ UNCHANGED <<setupVars, start, handlerNanos, bodyVars, attrVars, sizeVars,
                 pc, reqVars, ctxVars, nextErr, errorHandlerCalls, deferred,
                 responseAttrs, result, span, metricVars>>

----------------------------------------------------------------------------
(* The closure returned by Middleware, one action per step.                *)

\* Lines 84-87: store the tracer in the locals, derive the cancellable
\* context savedCtx from the request's user context and read the clock.
\* The request asks for path p and carries a body of b bytes.
Enter(r, p, b) ==
  /\ installed
  /\ pc[r] = "idle"
  /\ path' = [path EXCEPT ![r] = p]
  /\ requestBody' = [requestBody EXCEPT ![r] = b]
  /\ bodyOnEntry' = [bodyOnEntry EXCEPT ![r] = b]
  /\ locals' = [locals EXCEPT ![r] = @ \cup {"gofiber-contrib-tracer-fiber"}]
  /\ start' = [start EXCEPT ![r] = now]
  /\ pc' = [pc EXCEPT ![r] = "add"]
  /\ UNCHANGED <<setupVars, now, handlerNanos, responseBody, attrVars,
                 sizeVars, route, statusCode, userContext, ctxDone, nextErr,
                 errorHandlerCalls, deferred, responseAttrs, result, span,
                 metricVars>>

\* An increment that stores 1 instead of adding it.
AddActiveStore(r) ==
  /\ pc[r] = "add"
  /\ requestMetricsAttrs' = [requestMetricsAttrs EXCEPT ![r] =
                               httpServerMetricAttributesFromRequest(r)]
  /\ requestMetric' = [requestMetric EXCEPT ![r] =
       attributesToMetricOptions(httpServerMetricAttributesFromRequest(r))]
  /\ IF "http.server.active_requests" \in failed
       THEN UNCHANGED <<httpServerActiveRequests, activeAdds>>
       ELSE /\ httpServerActiveRequests' = 1
            /\ activeAdds' = [activeAdds EXCEPT ![r] =
                 Append(@, [incr |-> 1,
                            ctxDone |-> Done(r, "savedCtx"),
                            attrs |-> Attributes(requestMetric'[r])])]
  /\ responseMetricAttrs' = [responseMetricAttrs EXCEPT ![r] =
                               requestMetricsAttrs'[r]]
  /\ pc' = [pc EXCEPT ![r] = "start"]
  /\ UNCHANGED <<setupVars, timeVars, bodyVars, sizeVars, reqVars, ctxVars,
                 nextErr, errorHandlerCalls, deferred, responseAttrs, result,
                 span, httpServerDuration, httpServerRequestSize,
                 httpServerResponseSize>>

\* Lines 89-95: read the request attributes, turn them into options,
\* httpServerActiveRequests.Add(savedCtx, 1, requestMetric...), and copy the
\* attributes into responseMetricAttrs.
AddActive(r) ==
  /\ pc[r] = "add"
  /\ requestMetricsAttrs' = [requestMetricsAttrs EXCEPT ![r] =
                               httpServerMetricAttributesFromRequest(r)]
  /\ requestMetric' = [requestMetric EXCEPT ![r] =
       attributesToMetricOptions(httpServerMetricAttributesFromRequest(r))]
  /\ IF "http.server.active_requests" \in failed
       THEN UNCHANGED <<httpServerActiveRequests, activeAdds>>
       ELSE /\ httpServerActiveRequests' = httpServerActiveRequests + 1
            /\ activeAdds' = [activeAdds EXCEPT ![r] =
                 Append(@, [incr |-> 1,
                            ctxDone |-> Done(r, "savedCtx"),
                            attrs |-> Attributes(requestMetric'[r])])]
  /\ responseMetricAttrs' = [responseMetricAttrs EXCEPT ![r] =
                               requestMetricsAttrs'[r]]
  /\ pc' = [pc EXCEPT ![r] = "start"]
  /\ UNCHANGED <<setupVars, timeVars, bodyVars, sizeVars, reqVars, ctxVars,
                 nextErr, errorHandlerCalls, deferred, responseAttrs, result,
                 span, httpServerDuration, httpServerRequestSize,
                 httpServerResponseSize>>

\* A span start that does not defer span.End().
StartSpanNoDefer(r) ==
  /\ pc[r] = "start"
  /\ span' = [span EXCEPT ![r] =
                [@ EXCEPT !.started = @ + 1,
                          !.name = path[r],
                          !.ops = Append(@, "Start")]]
  /\ pc' = [pc EXCEPT ![r] = "setctx"]
  /\ UNCHANGED <<setupVars, timeVars, bodyVars, attrVars, sizeVars,
                 reqVars, ctxVars, nextErr, errorHandlerCalls, deferred,
                 responseAttrs, result, metricVars>>

\* Lines 97-114: extract the parent, start the span under the raw path and
\* defer span.End().
StartSpan(r) ==
  /\ pc[r] = "start"
  /\ span' = [span EXCEPT ![r] =
                [@ EXCEPT !.started = @ + 1,
                          !.name = path[r],
                          !.ops = Append(@, "Start")]]
  /\ deferred' = [deferred EXCEPT ![r] = Append(@, "span.End")]
  /\ pc' = [pc EXCEPT ![r] = "setctx"]
  /\ UNCHANGED <<setupVars, timeVars, bodyVars, attrVars, sizeVars,
                 reqVars, ctxVars, nextErr, errorHandlerCalls,
                 responseAttrs, result, metricVars>>

\* A dispatch that hands the handler the context without the span.
SetUserContextSaved(r) ==
  /\ pc[r] = "setctx"
  /\ userContext' = [userContext EXCEPT ![r] = "savedCtx"]
  /\ pc' = [pc EXCEPT ![r] = "next"]
  /\ UNCHANGED <<setupVars, timeVars, bodyVars, attrVars, sizeVars,
                 reqVars, locals, ctxDone, nextErr, errorHandlerCalls,
                 deferred, responseAttrs, result, span, metricVars>>

\* Line 117: c.SetUserContext(ctx), the context that carries the span.
SetUserContext(r) ==
  /\ pc[r] = "setctx"
  /\ userContext' = [userContext EXCEPT ![r] = "spanCtx"]
  /\ pc' = [pc EXCEPT ![r] = "next"]
  /\ UNCHANGED <<setupVars, timeVars, bodyVars, attrVars, sizeVars,
                 reqVars, locals, ctxDone, nextErr, errorHandlerCalls,
                 deferred, responseAttrs, result, span, metricVars>>

\* Line 120, c.Next() returns nil after d nanoseconds: the router matched a
\* route and the handler wrote a response with some status code and body;
\* it may also have replaced the body of the request.
NextReturnsNil(r, codes, sizes, durs) ==
  /\ pc[r] = "next"
  /\ \E code \in codes : statusCode' = [statusCode EXCEPT ![r] = code]
  /\ \E b \in sizes : requestBody' = [requestBody EXCEPT ![r] = b]
  /\ \E b \in sizes : responseBody' = [responseBody EXCEPT ![r] = b]
  /\ \E d \in durs :
       /\ now + d <= MaxNow
       /\ now' = now + d
       /\ handlerNanos' = [handlerNanos EXCEPT ![r] = d]
  /\ route' = [route EXCEPT ![r] = Template(path[r])]
  /\ nextErr' = [nextErr EXCEPT ![r] = "nil"]
  /\ pc' = [pc EXCEPT ![r] = "response"]
  /\ UNCHANGED <<setupVars, start, bodyOnEntry, attrVars, sizeVars, path,
                 ctxVars, errorHandlerCalls, deferred, responseAttrs, result,
                 span, metricVars>>

\* Line 120, c.Next() returns an error after d nanoseconds: the response is
\* not rendered yet.
NextReturnsErr(r, sizes, durs) ==
  /\ pc[r] = "next"
  /\ \E b \in sizes : requestBody' = [requestBody EXCEPT ![r] = b]
  /\ \E d \in durs :
       /\ now + d <= MaxNow
       /\ now' = now + d
       /\ handlerNanos' = [handlerNanos EXCEPT ![r] = d]
  /\ route' = [route EXCEPT ![r] = Template(path[r])]
  /\ nextErr' = [nextErr EXCEPT ![r] = "err"]
  /\ pc' = [pc EXCEPT ![r] = "recorderr"]
  /\ UNCHANGED <<setupVars, start, responseBody, bodyOnEntry, attrVars,
                 sizeVars, path, statusCode, ctxVars, errorHandlerCalls,
                 deferred, responseAttrs, result, span, metricVars>>

\* Line 120, c.Next() panics: the closure is left at once and only the
\* calls deferred so far run.
NextPanics(r) ==
  /\ pc[r] = "next"
  /\ route' = [route EXCEPT ![r] = Template(path[r])]
  /\ nextErr' = [nextErr EXCEPT ![r] = "panic"]
  /\ result' = [result EXCEPT ![r] = "panic"]
  /\ pc' = [pc EXCEPT ![r] = "defers"]
  /\ UNCHANGED <<setupVars, timeVars, bodyVars, attrVars, sizeVars,
                 path, statusCode, ctxVars, errorHandlerCalls, deferred,
                 responseAttrs, span, metricVars>>

\* Line 121: span.RecordError(err).
RecordError(r) ==
  /\ pc[r] = "recorderr"
  /\ span' = [span EXCEPT ![r] =
                [@ EXCEPT !.errors = @ + 1,
                          !.ops = Append(@, "RecordError")]]
  /\ pc' = [pc EXCEPT ![r] = "errhandler"]
  /\ UNCHANGED <<setupVars, timeVars, bodyVars, attrVars, sizeVars,
                 reqVars, ctxVars, nextErr, errorHandlerCalls, deferred,
                 responseAttrs, result, metricVars>>

\* Line 124: the registered error handler renders the error and so sets the
\* status code and the body of the response.  Its result is discarded.
ErrorHandler(r, codes, sizes) ==
  /\ pc[r] = "errhandler"
  /\ \E code \in codes : statusCode' = [statusCode EXCEPT ![r] = code]
  /\ \E b \in sizes : responseBody' = [responseBody EXCEPT ![r] = b]
  /\ errorHandlerCalls' = [errorHandlerCalls EXCEPT ![r] = @ + 1]
  /\ pc' = [pc EXCEPT ![r] = "response"]
  /\ UNCHANGED <<setupVars, timeVars, requestBody, bodyOnEntry, attrVars,
                 sizeVars, path, route, ctxVars, nextErr, deferred,
                 responseAttrs, result, span, metricVars>>

\* semconv.HTTPAttributesFromHTTPStatusCode plus the route (lines 128-131).
ResponseAttrs(r) ==
  << <<"http.status_code", statusCode[r]>>, <<"http.route", route[r]>> >>

\* A teardown closure that runs after span.End() instead of before it.
CaptureDeferredFirst(r) ==
  /\ pc[r] = "response"
  /\ responseAttrs' = [responseAttrs EXCEPT ![r] = ResponseAttrs(r)]
  /\ requestSize' = [requestSize EXCEPT ![r] = requestBody[r]]
  /\ responseSize' = [responseSize EXCEPT ![r] = responseBody[r]]
  /\ deferred' = [deferred EXCEPT ![r] = <<"teardown">> \o @]
  /\ pc' = [pc EXCEPT ![r] = "setattrs"]
  /\ UNCHANGED <<setupVars, timeVars, bodyVars, attrVars, reqVars, ctxVars,
                 nextErr, errorHandlerCalls, result, span, metricVars>>

\* Lines 128-149: read the response attributes and the lengths of the two
\* bodies, and register the teardown closure with defer.
Capture(r) ==
  /\ pc[r] = "response"
  /\ responseAttrs' = [responseAttrs EXCEPT ![r] = ResponseAttrs(r)]
  /\ requestSize' = [requestSize EXCEPT ![r] = requestBody[r]]
  /\ responseSize' = [responseSize EXCEPT ![r] = responseBody[r]]
  /\ deferred' = [deferred EXCEPT ![r] = Append(@, "teardown")]
  /\ pc' = [pc EXCEPT ![r] = "setattrs"]
  /\ UNCHANGED <<setupVars, timeVars, bodyVars, attrVars, reqVars, ctxVars,
                 nextErr, errorHandlerCalls, result, span, metricVars>>

\* Lines 151-155: span.SetAttributes(responseAttrs..., content length).
SetAttributes(r) ==
  /\ pc[r] = "setattrs"
  /\ span' = [span EXCEPT ![r] =
                [@ EXCEPT !.attrs = @ \o responseAttrs[r] \o
                            << <<"http.response_content_length",
                                 responseSize[r]>> >>,
                          !.ops = Append(@, "SetAttributes")]]
  /\ pc' = [pc EXCEPT ![r] = "setname"]
  /\ UNCHANGED <<setupVars, timeVars, bodyVars, attrVars, sizeVars,
                 reqVars, ctxVars, nextErr, errorHandlerCalls, deferred,
                 responseAttrs, result, metricVars>>

\* Line 156: span.SetName(cfg.SpanNameFormatter(c)).
SetName(r) ==
  /\ pc[r] = "setname"
  /\ span' = [span EXCEPT ![r] =
                [@ EXCEPT !.name = SpanNameFormatter(r),
                          !.ops = Append(@, "SetName")]]
  /\ pc' = [pc EXCEPT ![r] = "setstatus"]
  /\ UNCHANGED <<setupVars, timeVars, bodyVars, attrVars, sizeVars,
                 reqVars, ctxVars, nextErr, errorHandlerCalls, deferred,
                 responseAttrs, result, metricVars>>

\* A status that is forced to Error whenever c.Next() returned an error.
SetStatusErrorForced(r) ==
  /\ pc[r] = "setstatus"
  /\ LET st == IF nextErr[r] = "err"
                 THEN [code |-> "Error", message |-> "handler error"]
                 ELSE SpanStatusFromHTTPStatusCodeAndSpanKind(statusCode[r],
                                                              "server")
     IN span' = [span EXCEPT ![r] =
                   [@ EXCEPT !.status = st.code,
                             !.message = st.message,
                             !.ops = Append(@, "SetStatus")]]
  /\ result' = [result EXCEPT ![r] = "nil"]
  /\ pc' = [pc EXCEPT ![r] = "defers"]
  /\ UNCHANGED <<setupVars, timeVars, bodyVars, attrVars, sizeVars,
                 reqVars, ctxVars, nextErr, errorHandlerCalls, deferred,
                 responseAttrs, metricVars>>

\* An ending that returns the error of c.Next() to the host.
SetStatusReturnsErr(r) ==
  /\ pc[r] = "setstatus"
  /\ LET st == SpanStatusFromHTTPStatusCodeAndSpanKind(statusCode[r], "server")
     IN span' = [span EXCEPT ![r] =
                   [@ EXCEPT !.status = st.code,
                             !.message = st.message,
                             !.ops = Append(@, "SetStatus")]]
  /\ result' = [result EXCEPT ![r] = nextErr[r]]
  /\ pc' = [pc EXCEPT ![r] = "defers"]
  /\ UNCHANGED <<setupVars, timeVars, bodyVars, attrVars, sizeVars,
                 reqVars, ctxVars, nextErr, errorHandlerCalls, deferred,
                 responseAttrs, metricVars>>

\* Lines 158-161: span.SetStatus from the response status code, then
\* return nil, which starts the deferred calls.
SetStatus(r) ==
  /\ pc[r] = "setstatus"
  /\ LET st == SpanStatusFromHTTPStatusCodeAndSpanKind(statusCode[r], "server")
     IN span' = [span EXCEPT ![r] =
                   [@ EXCEPT !.status = st.code,
                             !.message = st.message,
                             !.ops = Append(@, "SetStatus")]]
  /\ result' = [result EXCEPT ![r] = "nil"]
  /\ pc' = [pc EXCEPT ![r] = "defers"]
  /\ UNCHANGED <<setupVars, timeVars, bodyVars, attrVars, sizeVars,
                 reqVars, ctxVars, nextErr, errorHandlerCalls, deferred,
                 responseAttrs, metricVars>>

----------------------------------------------------------------------------
(* Deferred calls.  They run last-in first-out once the closure returns or *)
(* panics; the invocation is over when the stack is empty.                 *)

Top(r) == deferred[r][Len(deferred[r])]

Pop(r) == SubSeq(deferred[r], 1, Len(deferred[r]) - 1)

\* Position after the deferred call on top of the stack has finished.
AfterDeferred(r) == IF Len(deferred[r]) = 1 THEN "done" ELSE "defers"

\* A point that carries the response attributes only.
PointResponseOnly(r, v) ==
  [value |-> v,
   ctxDone |-> Done(r, "savedCtx"),
   attrs |-> Attributes(attributesToRecordOptions(responseAttrs[r]))]

\* A point recorded into a histogram (lines 141, 143-145): the value, the
\* context handed to Record and the attributes of responRecord.
Point(r, v) ==
  [value |-> v,
   ctxDone |-> Done(r, "savedCtx"),
   attrs |-> Attributes(attributesToRecordOptions(responseMetricAttrs[r]))]

\* A teardown that forgets the decrement.
TeardownAddSkipped(r) ==
  /\ pc[r] = "defers"
  /\ deferred[r] # <<>>
  /\ Top(r) = "teardown"
  /\ responseMetricAttrs' = [responseMetricAttrs EXCEPT ![r] =
                               @ \o responseAttrs[r]]
  /\ UNCHANGED <<httpServerActiveRequests, activeAdds>>
  /\ pc' = [pc EXCEPT ![r] = "duration"]
  /\ UNCHANGED <<setupVars, timeVars, bodyVars, requestMetricsAttrs,
                 requestMetric, sizeVars, reqVars, ctxVars, nextErr,
                 errorHandlerCalls, deferred, responseAttrs, result, span,
                 httpServerDuration, httpServerRequestSize,
                 httpServerResponseSize>>

\* A teardown that calls cancel() before it records anything.
TeardownCancelFirst(r) ==
  /\ pc[r] = "defers"
  /\ deferred[r] # <<>>
  /\ Top(r) = "teardown"
  /\ responseMetricAttrs' = [responseMetricAttrs EXCEPT ![r] =
                               @ \o responseAttrs[r]]
  /\ ctxDone' = [ctxDone EXCEPT ![r] = TRUE]
  /\ IF "http.server.active_requests" \in failed
       THEN UNCHANGED <<httpServerActiveRequests, activeAdds>>
       ELSE /\ httpServerActiveRequests' = httpServerActiveRequests - 1
            /\ activeAdds' = [activeAdds EXCEPT ![r] =
                 Append(@, [incr |-> -1,
                            ctxDone |-> TRUE,
                            attrs |-> Attributes(requestMetric[r])])]
  /\ pc' = [pc EXCEPT ![r] = "duration"]
  /\ UNCHANGED <<setupVars, timeVars, bodyVars, requestMetricsAttrs,
                 requestMetric, sizeVars, reqVars, userContext, locals, nextErr,
                 errorHandlerCalls, deferred, responseAttrs, result, span,
                 httpServerDuration, httpServerRequestSize,
                 httpServerResponseSize>>

\* A teardown that tags the decrement with the attributes of the records.
TeardownAddFullAttrs(r) ==
  /\ pc[r] = "defers"
  /\ deferred[r] # <<>>
  /\ Top(r) = "teardown"
  /\ responseMetricAttrs' = [responseMetricAttrs EXCEPT ![r] =
                               @ \o responseAttrs[r]]
  /\ IF "http.server.active_requests" \in failed
       THEN UNCHANGED <<httpServerActiveRequests, activeAdds>>
       ELSE /\ httpServerActiveRequests' = httpServerActiveRequests - 1
            /\ activeAdds' = [activeAdds EXCEPT ![r] =
                 Append(@, [incr |-> -1,
                            ctxDone |-> Done(r, "savedCtx"),
                            attrs |-> Attributes(attributesToMetricOptions(responseMetricAttrs'[r]))])]
  /\ pc' = [pc EXCEPT ![r] = "duration"]
  /\ UNCHANGED <<setupVars, timeVars, bodyVars, requestMetricsAttrs,
                 requestMetric, sizeVars, reqVars, ctxVars, nextErr,
                 errorHandlerCalls, deferred, responseAttrs, result, span,
                 httpServerDuration, httpServerRequestSize,
                 httpServerResponseSize>>

\* A teardown that puts the response attributes in front.
TeardownAddPrepend(r) ==
  /\ pc[r] = "defers"
  /\ deferred[r] # <<>>
  /\ Top(r) = "teardown"
  /\ responseMetricAttrs' = [responseMetricAttrs EXCEPT ![r] =
                               responseAttrs[r] \o @]
  /\ IF "http.server.active_requests" \in failed
       THEN UNCHANGED <<httpServerActiveRequests, activeAdds>>
       ELSE /\ httpServerActiveRequests' = httpServerActiveRequests - 1
            /\ activeAdds' = [activeAdds EXCEPT ![r] =
                 Append(@, [incr |-> -1,
                            ctxDone |-> Done(r, "savedCtx"),
                            attrs |-> Attributes(requestMetric[r])])]
  /\ pc' = [pc EXCEPT ![r] = "duration"]
  /\ UNCHANGED <<setupVars, timeVars, bodyVars, requestMetricsAttrs,
                 requestMetric, sizeVars, reqVars, ctxVars, nextErr,
                 errorHandlerCalls, deferred, responseAttrs, result, span,
                 httpServerDuration, httpServerRequestSize,
                 httpServerResponseSize>>

\* Lines 137-142 (deferred closure): append the response attributes to
\* responseMetricAttrs and call
\* httpServerActiveRequests.Add(savedCtx, -1, requestMetric...).
TeardownAdd(r) ==
  /\ pc[r] = "defers"
  /\ deferred[r] # <<>>
  /\ Top(r) = "teardown"
  /\ responseMetricAttrs' = [responseMetricAttrs EXCEPT ![r] =
                               @ \o responseAttrs[r]]
  /\ IF "http.server.active_requests" \in failed
       THEN UNCHANGED <<httpServerActiveRequests, activeAdds>>
       ELSE /\ httpServerActiveRequests' = httpServerActiveRequests - 1
            /\ activeAdds' = [activeAdds EXCEPT ![r] =
                 Append(@, [incr |-> -1,
                            ctxDone |-> Done(r, "savedCtx"),
                            attrs |-> Attributes(requestMetric[r])])]
  /\ pc' = [pc EXCEPT ![r] = "duration"]
  /\ UNCHANGED <<setupVars, timeVars, bodyVars, requestMetricsAttrs,
                 requestMetric, sizeVars, reqVars, ctxVars, nextErr,
                 errorHandlerCalls, deferred, responseAttrs, result, span,
                 httpServerDuration, httpServerRequestSize,
                 httpServerResponseSize>>

\* Line 143: httpServerDuration.Record(savedCtx,
\* float64(time.Since(start).Microseconds())/1000, ...).  The value is kept
\* in microseconds, the thousandths of the unit of the histogram.
RecordDuration(r) ==
  /\ pc[r] = "duration"
  /\ IF "http.server.duration" \in failed
       THEN UNCHANGED httpServerDuration
       ELSE httpServerDuration' =
              [httpServerDuration EXCEPT ![r] = Append(@, Point(r, Microseconds(now - start[r])))]
  /\ pc' = [pc EXCEPT ![r] = "requestSize"]
  /\ UNCHANGED <<setupVars, timeVars, bodyVars, attrVars, sizeVars, reqVars,
                 ctxVars, nextErr, errorHandlerCalls, deferred, responseAttrs,
                 result, span, httpServerActiveRequests, activeAdds,
                 httpServerRequestSize, httpServerResponseSize>>

\* Line 144: httpServerRequestSize.Record(savedCtx, requestSize, ...).
RecordRequestSize(r) ==
  /\ pc[r] = "requestSize"
  /\ IF "http.server.request.size" \in failed
       THEN UNCHANGED httpServerRequestSize
       ELSE httpServerRequestSize' =
              [httpServerRequestSize EXCEPT ![r] = Append(@, Point(r, requestSize[r]))]
  /\ pc' = [pc EXCEPT ![r] = "responseSize"]
  /\ UNCHANGED <<setupVars, timeVars, bodyVars, attrVars, sizeVars, reqVars,
                 ctxVars, nextErr, errorHandlerCalls, deferred, responseAttrs,
                 result, span, httpServerActiveRequests, activeAdds,
                 httpServerDuration, httpServerResponseSize>>

\* Line 145: httpServerResponseSize.Record(savedCtx, responseSize, ...).
RecordResponseSize(r) ==
  /\ pc[r] = "responseSize"
  /\ IF "http.server.response.size" \in failed
       THEN UNCHANGED httpServerResponseSize
       ELSE httpServerResponseSize' =
              [httpServerResponseSize EXCEPT ![r] = Append(@, Point(r, responseSize[r]))]
  /\ pc' = [pc EXCEPT ![r] = "restore"]
  /\ UNCHANGED <<setupVars, timeVars, bodyVars, attrVars, sizeVars, reqVars,
                 ctxVars, nextErr, errorHandlerCalls, deferred, responseAttrs,
                 result, span, httpServerActiveRequests, activeAdds,
                 httpServerDuration, httpServerRequestSize>>

\* Line 147: c.SetUserContext(savedCtx); savedCtx is the context derived at
\* line 85 with context.WithCancel.
RestoreUserContext(r) ==
  /\ pc[r] = "restore"
  /\ userContext' = [userContext EXCEPT ![r] = "savedCtx"]
  /\ pc' = [pc EXCEPT ![r] = "cancel"]
  /\ UNCHANGED <<setupVars, timeVars, bodyVars, attrVars, sizeVars,
                 reqVars, locals, ctxDone, nextErr, errorHandlerCalls,
                 deferred, responseAttrs, result, span, metricVars>>

\* Line 148: cancel(); the deferred closure of line 136 is finished.
Cancel(r) ==
  /\ pc[r] = "cancel"
  /\ ctxDone' = [ctxDone EXCEPT ![r] = TRUE]
  /\ deferred' = [deferred EXCEPT ![r] = Pop(r)]
  /\ pc' = [pc EXCEPT ![r] = AfterDeferred(r)]
  /\ UNCHANGED <<setupVars, timeVars, bodyVars, attrVars, sizeVars,
                 reqVars, userContext, locals, nextErr,
                 errorHandlerCalls, responseAttrs, result, span, metricVars>>

\* Line 114 (deferred): span.End().
SpanEnd(r) ==
  /\ pc[r] = "defers"
  /\ deferred[r] # <<>>
  /\ Top(r) = "span.End"
  /\ span' = [span EXCEPT ![r] =
                [@ EXCEPT !.ended = @ + 1, !.ops = Append(@, "End")]]
  /\ deferred' = [deferred EXCEPT ![r] = Pop(r)]
  /\ pc' = [pc EXCEPT ![r] = AfterDeferred(r)]
  /\ UNCHANGED <<setupVars, timeVars, bodyVars, attrVars, sizeVars,
                 reqVars, ctxVars, nextErr, errorHandlerCalls,
                 responseAttrs, result, metricVars>>

----------------------------------------------------------------------------
(* Specifications                                                          *)

\* One step of the invocation for request r.  hcodes and ecodes are the
\* status codes the handler and the error handler may leave on the response,
\* sizes the body lengths and durs the running times of the handler.
Step(r, hcodes, ecodes, sizes, durs) ==
  \/ \E p \in Paths, b \in sizes : Enter(r, p, b)
  \/ AddActive(r)
  \/ StartSpan(r)
  \/ SetUserContext(r)
  \/ NextReturnsNil(r, hcodes, sizes, durs)
  \/ NextReturnsErr(r, sizes, durs)
  \/ NextPanics(r)
  \/ RecordError(r)
  \/ ErrorHandler(r, ecodes, sizes)
  \/ Capture(r)
  \/ SetAttributes(r)
  \/ SetName(r)
  \/ SetStatus(r)
  \/ TeardownAdd(r)
  \/ RecordDuration(r)
  \/ RecordRequestSize(r)
  \/ RecordResponseSize(r)
  \/ RestoreUserContext(r)
  \/ Cancel(r)
  \/ SpanEnd(r)

\* Requests served concurrently by one middleware instance.
Next ==
  \E r \in Requests : Step(r, SuccessCode, NotFoundCode, FixedSizes, NoTime)

Spec == Init /\ [][Next]_vars

\* One request whose response may carry any status code of MinCode..MaxCode.
NextStatus == Step(1, AllCodes, AllCodes, FixedSizes, NoTime)

SpecStatus == Init /\ [][NextStatus]_vars

\* One request with bodies of any length up to MaxBody, a handler that
\* takes time, and a clock that advances between the steps.
NextRequest ==
  \/ Step(1, HandlerCodes, ErrorCodes, BodySizes, Elapsed)
  \/ \E d \in Elapsed : Tick(d)

SpecRequest == Init /\ [][NextRequest]_vars

\* Middleware(opts...) with any set of instruments failing to be created,
\* followed by one request.
NextSetup ==
  \/ \E fs \in SUBSET Instruments : Middleware(fs)
  \/ Step(1, HandlerCodes, ErrorCodes, FixedSizes, NoTime)

SpecSetup == InitSetup /\ [][NextSetup]_vars

----------------------------------------------------------------------------
(* Properties                                                              *)

\* The increments passed to httpServerActiveRequests.Add for request r.
Incrs(r) == [i \in 1..Len(activeAdds[r]) |-> activeAdds[r][i].incr]

\* c.Next() has returned, with or without an error.
HandlerReturned(r) == nextErr[r] \in {"nil", "err"}

\* The invocation is over: the closure and its deferred calls have run.
Over(r) == pc[r] = "done"

\* The names of the operations made on the span of r contain op.
SpanDid(r, op) == \E i \in 1..Len(span[r].ops) : span[r].ops[i] = op

\* C1: a request whose handler returns (nil or an error) gets exactly one +1
\* on http.server.active_requests, made before c.Next() is called, and
\* exactly one -1, made after c.Next() has returned; over the whole
\* invocation the net change is 0.
C1_ActiveRequestsBalanced ==
  \A r \in Requests :
    /\ Incrs(r) \in {<<>>, <<1>>, <<1, -1>>}
    /\ pc[r] = "next" => Incrs(r) = <<1>>
    /\ Len(Incrs(r)) = 2 => HandlerReturned(r)
    /\ (HandlerReturned(r) /\ Over(r)) => Incrs(r) = <<1, -1>>

C1_Witness ==
  \E r \in Requests :
    nextErr[r] = "err" /\ Over(r) /\ Incrs(r) = <<1, -1>>

\* C2: when c.Next() panics the teardown still runs: the gauge is
\* decremented exactly once and each of the three histograms is recorded
\* exactly once for that request.
C2_TeardownOnPanic ==
  \A r \in Requests :
    (nextErr[r] = "panic" /\ Over(r)) =>
      /\ Incrs(r) = <<1, -1>>
      /\ Len(httpServerDuration[r]) = 1
      /\ Len(httpServerRequestSize[r]) = 1
      /\ Len(httpServerResponseSize[r]) = 1

\* C3: every request has exactly one span, started once and ended once on
\* every exit path (nil, error, panic), and the start precedes the end.
C3_SpanStartedAndEndedOnce ==
  \A r \in Requests :
    /\ span[r].started <= 1
    /\ span[r].ended <= span[r].started
    /\ span[r].ops # <<>> => span[r].ops[1] = "Start"
    /\ \A i \in 1..Len(span[r].ops) :
         /\ span[r].ops[i] = "Start" => i = 1
         /\ span[r].ops[i] = "End" => i = Len(span[r].ops)
    /\ Over(r) => span[r].started = 1 /\ span[r].ended = 1

C3_Witness ==
  \E r \in Requests :
    nextErr[r] = "panic" /\ Over(r) /\ span[r].ended = 1

\* C4: under any interleaving of the requests, the shared counter equals the
\* number of requests that have made their increment and not yet their
\* decrement, is never negative, and is 0 again once every request has
\* completed with a handler that returned.
C4_CounterIsInFlight ==
  /\ httpServerActiveRequests =
       Cardinality({r \in Requests : Len(activeAdds[r]) = 1})
  /\ httpServerActiveRequests >= 0
  /\ (\A r \in Requests : Over(r) /\ HandlerReturned(r)) =>
       httpServerActiveRequests = 0

C4_Witness ==
  \E r1, r2 \in Requests :
    /\ r1 # r2
    /\ pc[r1] = "duration"
    /\ pc[r2] = "next"
    /\ httpServerActiveRequests = 1

\* C5: when c.Next() returns an error, the error is recorded on the span
\* while the span is still open, then the error handler is invoked, and the
\* span status and the status-code attribute come from the response status
\* code as the error handler left it (404 gives Unset), not from the fact
\* that the handler failed.
C5_StatusAfterErrorHandler ==
  \A r \in Requests :
    nextErr[r] = "err" =>
      /\ pc[r] = "errhandler" =>
           /\ span[r].errors = 1
           /\ span[r].ended = 0
           /\ errorHandlerCalls[r] = 0
      /\ errorHandlerCalls[r] >= 1 => span[r].errors = 1
      /\ SpanDid(r, "SetAttributes") =>
           /\ errorHandlerCalls[r] = 1
           /\ span[r].attrs[1] = <<"http.status_code", statusCode[r]>>
      /\ SpanDid(r, "SetStatus") =>
           /\ errorHandlerCalls[r] = 1
           /\ statusCode[r] = 404 => span[r].status = "Unset"
           /\ statusCode[r] = 500 => span[r].status = "Error"

C5_Witness ==
  \E r \in Requests :
    /\ nextErr[r] = "err"
    /\ statusCode[r] = 404
    /\ span[r].errors = 1
    /\ SpanDid(r, "SetStatus")
    /\ span[r].status = "Unset"

AcceptedBelow500 ==
  (100..103) \cup (200..208) \cup {226} \cup (300..305) \cup (307..308)
    \cup (400..418) \cup (421..426) \cup (428..429) \cup {431, 451}

C7_SpanName ==
  \A r \in Requests :
    cfg.SpanNameFormatter = "default" =>
      /\ (span[r].started = 1 /\ ~ SpanDid(r, "SetName")) =>
           span[r].name = path[r]
      /\ SpanDid(r, "SetName") =>
           /\ HandlerReturned(r)
           /\ span[r].name = Template(path[r])
      /\ (HandlerReturned(r) /\ span[r].ended = 1) => SpanDid(r, "SetName")

C7_Witness ==
  \E r \in Requests :
    /\ cfg.SpanNameFormatter = "default"
    /\ path[r] = "/users/42"
    /\ span[r].ended = 1
    /\ span[r].name = "/users/:id"

\* C8: once the middleware has finished a request whose handler returned,
\* the user context of the request is the context it had on entry, not the
\* derived cancellable context nor the span context, and it is not a
\* cancelled context.
C8_OriginalContextRestored ==
  \A r \in Requests :
    (Over(r) /\ HandlerReturned(r)) =>
      /\ userContext[r] = "original"
      /\ ~ Done(r, userContext[r])

\* C9: the derived context is cancelled on every exit of the middleware
\* (success, error, panic): none is left uncancelled once the invocation is
\* over.
C9_DerivedContextCancelled ==
  \A r \in Requests : Over(r) => ctxDone[r]

\* The records made by the teardown of r, over the four instruments.
TeardownRecords(r) ==
  {activeAdds[r][i] : i \in {j \in 1..Len(activeAdds[r]) :
                                activeAdds[r][j].incr = -1}}
    \cup {httpServerDuration[r][i] : i \in 1..Len(httpServerDuration[r])}
    \cup {httpServerRequestSize[r][i] :
            i \in 1..Len(httpServerRequestSize[r])}
    \cup {httpServerResponseSize[r][i] :
            i \in 1..Len(httpServerResponseSize[r])}

\* C10: the decrement and the three histogram records are made before the
\* derived context is cancelled: each of them is handed a context that is
\* not cancelled yet, and once cancel() has run all four have been made.
C10_RecordsBeforeCancel ==
  \A r \in Requests :
    /\ \A rec \in TeardownRecords(r) : ~ rec.ctxDone
    /\ ctxDone[r] =>
         /\ Incrs(r) = <<1, -1>>
         /\ Len(httpServerDuration[r]) = 1
         /\ Len(httpServerRequestSize[r]) = 1
         /\ Len(httpServerResponseSize[r]) = 1

C10_Witness ==
  \E r \in Requests :
    /\ ctxDone[r]
    /\ Len(httpServerResponseSize[r]) = 1
    /\ ~ httpServerResponseSize[r][1].ctxDone

\* The points recorded for r in the three histograms.
HistogramPoints(r) ==
  {httpServerDuration[r][i] : i \in 1..Len(httpServerDuration[r])}
    \cup {httpServerRequestSize[r][i] :
            i \in 1..Len(httpServerRequestSize[r])}
    \cup {httpServerResponseSize[r][i] :
            i \in 1..Len(httpServerResponseSize[r])}

\* Each of the three histograms holds exactly one point for r.
RecordedOnce(r) ==
  /\ Len(httpServerDuration[r]) = 1
  /\ Len(httpServerRequestSize[r]) = 1
  /\ Len(httpServerResponseSize[r]) = 1

\* C11: when the handler returns, each of the three histograms is recorded
\* exactly once, after the handler has returned, with the request-phase
\* attributes followed by the response-phase attributes (status code, then
\* route); the request-phase sequence used for the increment is not
\* modified by that.
C11_HistogramAttributes ==
  \A r \in Requests :
    /\ Len(httpServerDuration[r]) <= 1
    /\ Len(httpServerRequestSize[r]) <= 1
    /\ Len(httpServerResponseSize[r]) <= 1
    /\ HistogramPoints(r) # {} => HandlerReturned(r)
    /\ (HandlerReturned(r) /\ Over(r)) => RecordedOnce(r)
    /\ \A p \in HistogramPoints(r) :
         p.attrs = << <<"http.method", "GET">>,
                      <<"http.target", path[r]>>,
                      <<"http.status_code", statusCode[r]>>,
                      <<"http.route", route[r]>> >>
    /\ pc[r] \notin {"idle", "add"} =>
         /\ requestMetricsAttrs[r] =
              << <<"http.method", "GET">>, <<"http.target", path[r]>> >>
         /\ Attributes(requestMetric[r]) = requestMetricsAttrs[r]
         /\ activeAdds[r][1].attrs = requestMetricsAttrs[r]

C11_Witness ==
  \E r \in Requests :
    /\ Over(r)
    /\ nextErr[r] = "err"
    /\ RecordedOnce(r)
    /\ Len(httpServerDuration[r][1].attrs) = 4

\* The set of the attributes of a sequence.
AttrSet(attrs) == {attrs[i] : i \in 1..Len(attrs)}

\* C12 (as stated): the decrement of the teardown is tagged with the full
\* (request-phase plus response-phase) attribute set, the set that tags the
\* three histogram records of the request.
C12_DecrementFullSet ==
  \A r \in Requests :
    Len(activeAdds[r]) = 2 =>
      /\ AttrSet(activeAdds[r][2].attrs) =
           AttrSet(requestMetricsAttrs[r]) \cup AttrSet(responseAttrs[r])
      /\ \A p \in HistogramPoints(r) :
           AttrSet(p.attrs) = AttrSet(activeAdds[r][2].attrs)

\* C12 (amended): the decrement of the teardown is tagged with the
\* request-phase attribute set only; the three histogram records of the
\* request are tagged with the full set, which is the set of the decrement
\* plus the response-phase attributes.
C12_DecrementRequestSet ==
  \A r \in Requests :
    Len(activeAdds[r]) = 2 =>
      /\ AttrSet(activeAdds[r][2].attrs) = AttrSet(requestMetricsAttrs[r])
      /\ AttrSet(responseAttrs[r]) \cap AttrSet(activeAdds[r][2].attrs) = {}
      /\ \A p \in HistogramPoints(r) :
           AttrSet(p.attrs) =
             AttrSet(activeAdds[r][2].attrs) \cup AttrSet(responseAttrs[r])

C12_Witness ==
  \E r \in Requests :
    /\ Over(r)
    /\ Len(activeAdds[r]) = 2
    /\ RecordedOnce(r)
    /\ Cardinality(AttrSet(activeAdds[r][2].attrs)) = 2
    /\ Cardinality(AttrSet(httpServerResponseSize[r][1].attrs)) = 4

\* C13: the value recorded into http.server.request.size is the length the
\* request body had before the handler was dispatched, also when the
\* handler changes the request body.
C13_RequestSizeOnEntry ==
  \A r \in Requests :
    \A i \in 1..Len(httpServerRequestSize[r]) :
      httpServerRequestSize[r][i].value = bodyOnEntry[r]

\* C14 (as stated): the duration recorded is never negative and is at least
\* the time the handler took.  Values are in microseconds, times in
\* nanoseconds.
C14_AtLeastHandlerTime ==
  \A r \in Requests :
    \A i \in 1..Len(httpServerDuration[r]) :
      /\ httpServerDuration[r][i].value >= 0
      /\ httpServerDuration[r][i].value * 1000 >= handlerNanos[r]

\* C14 (amended): the duration recorded is never negative and is at least
\* the time the handler took rounded down to whole microseconds (it is
\* short of the handler's time by less than one microsecond); the clock is
\* read before the dispatch and the duration is recorded only after the
\* handler and the error handler have returned.
C14_AtLeastHandlerMicroseconds ==
  \A r \in Requests :
    /\ start[r] <= now
    /\ \A i \in 1..Len(httpServerDuration[r]) :
         /\ httpServerDuration[r][i].value >= 0
         /\ httpServerDuration[r][i].value >= handlerNanos[r] \div 1000
         /\ httpServerDuration[r][i].value * 1000 > handlerNanos[r] - 1000
         /\ HandlerReturned(r)
         /\ nextErr[r] = "err" => errorHandlerCalls[r] = 1

C14_Witness ==
  \E r \in Requests :
    /\ Len(httpServerDuration[r]) = 1
    /\ handlerNanos[r] = 1000
    /\ httpServerDuration[r][1].value = 1

\* C15: when the handler is dispatched, the user context of the request is
\* the context that carries the span just started and the tracer is in the
\* locals of the request.
C15_SpanContextAtDispatch ==
  \A r \in Requests :
    pc[r] = "next" =>
      /\ userContext[r] = "spanCtx"
      /\ "gofiber-contrib-tracer-fiber" \in locals[r]
      /\ span[r].started = 1
      /\ span[r].ended = 0

C15_Witness ==
  \E r \in Requests :
    pc[r] = "next" /\ userContext[r] = "spanCtx" /\ span[r].started = 1

\* The points instrument i holds for r.
Recorded(i, r) ==
  CASE i = "http.server.duration" -> httpServerDuration[r]
    [] i = "http.server.request.size" -> httpServerRequestSize[r]
    [] i = "http.server.response.size" -> httpServerResponseSize[r]
    [] i = "http.server.active_requests" -> activeAdds[r]

ValueFor(attrs) ==
  LET Of(r) == {i \in 1..Len(activeAdds[r]) : activeAdds[r][i].attrs = attrs}
      Plus(r) == Cardinality({i \in Of(r) : activeAdds[r][i].incr = 1})
      Minus(r) == Cardinality({i \in Of(r) : activeAdds[r][i].incr = -1})
      Sum[n \in 0..NReq] ==
        IF n = 0 THEN 0 ELSE Sum[n - 1] + Plus(n) - Minus(n)
  IN Sum[NReq]

\* C17: the +1 and the -1 of a request carry the same attributes, the
\* request-phase ones, although the response-phase attributes have been
\* appended to the attributes of the records in between; so for every
\* attribute set the counter counts the requests in flight with that set and
\* is back where it was once the request is over.
C17_SameAttributesBothWays ==
  /\ \A r \in Requests :
       Len(activeAdds[r]) = 2 =>
         /\ activeAdds[r][2].attrs = activeAdds[r][1].attrs
         /\ activeAdds[r][2].attrs =
              << <<"http.method", "GET">>, <<"http.target", path[r]>> >>
         /\ Len(responseMetricAttrs[r]) = 4
  /\ \A r \in Requests :
       Len(activeAdds[r]) >= 1 =>
         ValueFor(activeAdds[r][1].attrs) =
           Cardinality({q \in Requests :
                          /\ Len(activeAdds[q]) = 1
                          /\ activeAdds[q][1].attrs = activeAdds[r][1].attrs})

C17_Witness ==
  \E r \in Requests :
    /\ Over(r)
    /\ Len(activeAdds[r]) = 2
    /\ Len(responseMetricAttrs[r]) = 4
    /\ ValueFor(activeAdds[r][1].attrs) = 0

\* C18: whenever the handler returns, the middleware returns nil to the
\* host; the error handler is invoked exactly once when the handler
\* returned an error, which is then not propagated, and not at all when the
\* handler returned nil.
C18_ReturnsNil ==
  \A r \in Requests :
    /\ result[r] \in {"none", "nil", "panic"}
    /\ errorHandlerCalls[r] <= 1
    /\ nextErr[r] # "err" => errorHandlerCalls[r] = 0
    /\ (HandlerReturned(r) /\ Over(r)) =>
         /\ result[r] = "nil"
         /\ errorHandlerCalls[r] = IF nextErr[r] = "err" THEN 1 ELSE 0

C18_Witness ==
  \E r \in Requests :
    /\ nextErr[r] = "err"
    /\ Over(r)
    /\ result[r] = "nil"
    /\ errorHandlerCalls[r] = 1

\* C19: the end of the span is the last event of the bracket: the changes
\* made to the span, the four records, the restore of the user context and
\* the cancel all come before it, and nothing is done to an ended span.
C19_SpanEndIsLast ==
  \A r \in Requests :
    span[r].ended >= 1 =>
      /\ Over(r)
      /\ span[r].ops[Len(span[r].ops)] = "End"
      /\ \A i \in 1..(Len(span[r].ops) - 1) : span[r].ops[i] # "End"
      /\ HandlerReturned(r) =>
           /\ SpanDid(r, "SetAttributes")
           /\ SpanDid(r, "SetName")
           /\ SpanDid(r, "SetStatus")
           /\ nextErr[r] = "err" => SpanDid(r, "RecordError")
           /\ Incrs(r) = <<1, -1>>
           /\ RecordedOnce(r)
           /\ userContext[r] = "savedCtx"
           /\ ctxDone[r]

C19_Witness ==
  \E r \in Requests :
    /\ span[r].ended = 1
    /\ nextErr[r] = "err"
    /\ span[r].ops = <<"Start", "RecordError", "SetAttributes", "SetName",
                       "SetStatus", "End">>
    /\ ctxDone[r]

====
